---------------------------- MODULE Spec2Model ----------------------------
(***************************************************************************)
(* Model of the Intelligent Procurement Agent:                             *)
(*   src/src/memory.py  MemoryLayer (add, get_all, search)                 *)
(*   src/src/agent.py   ADKProcurementAgent (get_intent, process_message,  *)
(*                      handle_approval, extract_json)                     *)
(* The language model, the embedding provider, the ADK runner and the      *)
(* ChromaDB collection are external: each call to them is an input of the  *)
(* action that makes it, drawn from a small set of outcomes (a failure, or *)
(* one of a few replies).                                                  *)
(***************************************************************************)
EXTENDS Integers, Sequences, FiniteSets, TLC

VARIABLES
    collection,     \* MemoryLayer.collection: the stored records, in insertion order
    pending_order,  \* ADKProcurementAgent.pending_order: None or a dict
    last            \* the last call: its arguments, the state it began in, its outcome

vars == <<collection, pending_order, last>>

---------------------------------------------------------------------------
(* Bounds *)

\* the collection holds at most this many records (add is not offered beyond it)
MaxRecords == 2

\* the same, where the memory is filled beyond what one search returns
MaxStored == 4

---------------------------------------------------------------------------
(* Python values *)

None == [tag |-> "None"]

Str(s) == [tag |-> "str", s |-> s]

\* a dict with string keys and string values: items is a function on the keys it holds
Dict(f) == [tag |-> "dict", items |-> f]

EmptyItems == [k \in {} |-> ""]

\* bool(v)
Truthy(v) ==
    CASE v.tag = "None" -> FALSE
      [] v.tag = "str"  -> v.s /= ""
      [] v.tag = "dict" -> DOMAIN v.items /= {}

\* d.get(k) on a dict
dict_get(d, k) == IF k \in DOMAIN d.items THEN Str(d.items[k]) ELSE None

\* how an f-string renders a value
Format(v) == IF v.tag = "None" THEN "None" ELSE v.s

Min(a, b) == IF a <= b THEN a ELSE b

---------------------------------------------------------------------------
(* Strings: str.lower, str.upper, str.strip and the `in` substring test *)

LowerChar(c) ==
    CASE c = "A" -> "a" [] c = "B" -> "b" [] c = "C" -> "c" [] c = "D" -> "d"
      [] c = "E" -> "e" [] c = "F" -> "f" [] c = "G" -> "g" [] c = "H" -> "h"
      [] c = "I" -> "i" [] c = "J" -> "j" [] c = "K" -> "k" [] c = "L" -> "l"
      [] c = "M" -> "m" [] c = "N" -> "n" [] c = "O" -> "o" [] c = "P" -> "p"
      [] c = "Q" -> "q" [] c = "R" -> "r" [] c = "S" -> "s" [] c = "T" -> "t"
      [] c = "U" -> "u" [] c = "V" -> "v" [] c = "W" -> "w" [] c = "X" -> "x"
      [] c = "Y" -> "y" [] c = "Z" -> "z" [] OTHER -> c

UpperChar(c) ==
    CASE c = "a" -> "A" [] c = "b" -> "B" [] c = "c" -> "C" [] c = "d" -> "D"
      [] c = "e" -> "E" [] c = "f" -> "F" [] c = "g" -> "G" [] c = "h" -> "H"
      [] c = "i" -> "I" [] c = "j" -> "J" [] c = "k" -> "K" [] c = "l" -> "L"
      [] c = "m" -> "M" [] c = "n" -> "N" [] c = "o" -> "O" [] c = "p" -> "P"
      [] c = "q" -> "Q" [] c = "r" -> "R" [] c = "s" -> "S" [] c = "t" -> "T"
      [] c = "u" -> "U" [] c = "v" -> "V" [] c = "w" -> "W" [] c = "x" -> "X"
      [] c = "y" -> "Y" [] c = "z" -> "Z" [] OTHER -> c

RECURSIVE lower(_)
lower(s) ==
    IF s = "" THEN ""
    ELSE LowerChar(SubSeq(s, 1, 1)) \o lower(SubSeq(s, 2, Len(s)))

RECURSIVE upper(_)
upper(s) ==
    IF s = "" THEN ""
    ELSE UpperChar(SubSeq(s, 1, 1)) \o upper(SubSeq(s, 2, Len(s)))

RECURSIVE strip(_)
strip(s) ==
    IF s = "" THEN ""
    ELSE IF SubSeq(s, 1, 1) = " " THEN strip(SubSeq(s, 2, Len(s)))
    ELSE IF SubSeq(s, Len(s), Len(s)) = " " THEN strip(SubSeq(s, 1, Len(s) - 1))
    ELSE s

\* kw in s
Contains(s, kw) ==
    \E i \in 1..(Len(s) - Len(kw) + 1) : SubSeq(s, i, i + Len(kw) - 1) = kw

---------------------------------------------------------------------------
(* Constants of MemoryLayer *)

\* the placeholder add() writes as every record's timestamp
Timestamp == "2024-01-01T12:00:00"

\* squared L2 distance, the collection's default metric
Distance(a, b) == (a - b) * (a - b)

---------------------------------------------------------------------------
(* MemoryLayer *)

\* MemoryLayer._get_embedding: returns the provider's vector, raises when the call fails
_get_embedding(text, emb) == [raised |-> ~emb.ok, vector |-> emb.vector]

\* MemoryLayer._extract_facts: response.choices[0].message.content.strip()
_extract_facts(user_input, ext) ==
    IF ~ext.ok THEN [raised |-> TRUE, fact |-> ""]
    ELSE IF ext.content.tag /= "str" THEN [raised |-> TRUE, fact |-> ""]
    ELSE [raised |-> FALSE, fact |-> strip(ext.content.s)]

\* uuid4 changed: every record gets the same id
uuid4_repeats(coll) == 1

\* str(uuid.uuid4()): an id no stored record has; ids are named 1, 2, ... in the
\* order they are drawn
uuid4(coll) == Len(coll) + 1

\* collection_add changed: a failed insert leaves the record behind
collection_add_keeps_failed_record(coll, rec, ins_ok) ==
    [raised |-> ~ins_ok, collection |-> Append(coll, rec)]

\* collection.add(documents, embeddings, metadatas, ids): the record is appended,
\* or the store raises and holds what it held
collection_add(coll, rec, ins_ok) ==
    IF ins_ok THEN [raised |-> FALSE, collection |-> Append(coll, rec)]
    ELSE [raised |-> TRUE, collection |-> coll]

\* add changed: the document is stored before it is embedded
add_stores_before_embedding(coll, user_input, metadata, ext, emb, ins_ok) ==
    LET e == _extract_facts(user_input, ext)
        g == _get_embedding(e.fact, emb)
        meta == ("original_input" :> user_input) @@ ("timestamp" :> Timestamp)
                    @@ (IF Truthy(metadata) THEN metadata.items ELSE EmptyItems)
        rec == [id |-> uuid4(coll), document |-> e.fact, embedding |-> g.vector,
                metadata |-> meta]
    IN  IF e.raised
        THEN [raised |-> TRUE, collection |-> coll, fact |-> "",
              completion_calls |-> 1, embedding_calls |-> 0, insert_calls |-> 0]
        ELSE IF g.raised
        THEN [raised |-> TRUE, collection |-> Append(coll, rec), fact |-> "",
              completion_calls |-> 1, embedding_calls |-> 1, insert_calls |-> 1]
        ELSE [raised |-> ~ins_ok, collection |-> Append(coll, rec),
              fact |-> IF ins_ok THEN e.fact ELSE "",
              completion_calls |-> 1, embedding_calls |-> 1, insert_calls |-> 1]

\* MemoryLayer.add
add(coll, user_input, metadata, ext, emb, ins_ok) ==
    LET e == _extract_facts(user_input, ext)
        g == _get_embedding(e.fact, emb)
        mem_id == uuid4(coll)
        meta == ("original_input" :> user_input) @@ ("timestamp" :> Timestamp)
                    @@ (IF Truthy(metadata) THEN metadata.items ELSE EmptyItems)
        rec == [id |-> mem_id, document |-> e.fact, embedding |-> g.vector,
                metadata |-> meta]
        ins == collection_add(coll, rec, ins_ok)
    IN  IF e.raised
        THEN [raised |-> TRUE, collection |-> coll, fact |-> "",
              completion_calls |-> 1, embedding_calls |-> 0, insert_calls |-> 0]
        ELSE IF g.raised
        THEN [raised |-> TRUE, collection |-> coll, fact |-> "",
              completion_calls |-> 1, embedding_calls |-> 1, insert_calls |-> 0]
        ELSE IF ins.raised
        THEN [raised |-> TRUE, collection |-> ins.collection, fact |-> "",
              completion_calls |-> 1, embedding_calls |-> 1, insert_calls |-> 1]
        ELSE [raised |-> FALSE, collection |-> ins.collection, fact |-> e.fact,
              completion_calls |-> 1, embedding_calls |-> 1, insert_calls |-> 1]

\* MemoryLayer.get_all
get_all(coll) ==
    IF Len(coll) = 0 THEN <<>>
    ELSE [i \in 1..Len(coll) |->
            [fact |-> coll[i].document, metadata |-> coll[i].metadata]]

\* collection_query changed: the records farthest from the query come first
collection_query_farthest_first(coll, query_vector, n_results) ==
    LET d(i) == Distance(coll[i].embedding, query_vector)
        Before(j, i) == d(j) > d(i) \/ (d(j) = d(i) /\ j < i)
        Rank(i) == Cardinality({j \in 1..Len(coll) : Before(j, i)}) + 1
        At(k) == CHOOSE i \in 1..Len(coll) : Rank(i) = k
    IN  IF n_results <= 0
        THEN [raised |-> TRUE, rows |-> <<>>]
        ELSE [raised |-> FALSE,
              rows |-> [k \in 1..n_results |->
                          [document |-> coll[At(k)].document,
                           metadata |-> coll[At(k)].metadata,
                           distance |-> d(At(k))]]]

\* collection.query(query_embeddings, n_results): the n_results records nearest
\* to the query vector, nearest first (records at the same distance in insertion
\* order); a number of results that is zero or negative is refused
collection_query(coll, query_vector, n_results) ==
    LET d(i) == Distance(coll[i].embedding, query_vector)
        Before(j, i) == d(j) < d(i) \/ (d(j) = d(i) /\ j < i)
        Rank(i) == Cardinality({j \in 1..Len(coll) : Before(j, i)}) + 1
        At(k) == CHOOSE i \in 1..Len(coll) : Rank(i) = k
    IN  IF n_results <= 0
        THEN [raised |-> TRUE, rows |-> <<>>]
        ELSE [raised |-> FALSE,
              rows |-> [k \in 1..n_results |->
                          [document |-> coll[At(k)].document,
                           metadata |-> coll[At(k)].metadata,
                           distance |-> d(At(k))]]]

\* search changed: the query is embedded and the collection asked whatever the
\* collection holds
search_without_empty_check(coll, query, limit, emb) ==
    LET count == Len(coll)
        q == _get_embedding(query, emb)
        res == collection_query(coll, q.vector, Min(limit, count))
    IN  IF q.raised \/ res.raised
        THEN [raised |-> TRUE, results |-> <<>>, embedding_calls |-> 1]
        ELSE [raised |-> FALSE,
              results |-> [i \in 1..Len(res.rows) |->
                             [fact |-> res.rows[i].document,
                              metadata |-> res.rows[i].metadata,
                              score |-> res.rows[i].distance]],
              embedding_calls |-> 1]

\* MemoryLayer.search
search(coll, query, limit, emb) ==
    LET count == Len(coll)
        q == _get_embedding(query, emb)
        res == collection_query(coll, q.vector, Min(limit, count))
    IN  IF count = 0
        THEN [raised |-> FALSE, results |-> <<>>, embedding_calls |-> 0]
        ELSE IF q.raised
        THEN [raised |-> TRUE, results |-> <<>>, embedding_calls |-> 1]
        ELSE IF res.raised
        THEN [raised |-> TRUE, results |-> <<>>, embedding_calls |-> 1]
        ELSE [raised |-> FALSE,
              results |-> [i \in 1..Len(res.rows) |->
                             [fact |-> res.rows[i].document,
                              metadata |-> res.rows[i].metadata,
                              score |-> res.rows[i].distance]],
              embedding_calls |-> 1]

---------------------------------------------------------------------------
(* Agent response text.  A text is a sequence of tokens: "{" and "}" are the
   brace characters; a token "key:value" is one member of a JSON object (its
   quotes and separating comma included); a token "key:" is a member's key that
   an object follows as its value; every other token is a run of characters
   without braces (prose, a code fence). *)

\* the place of the first ":" of a token, 0 when it has none
IndexOfColon(t) ==
    LET at == {i \in 1..Len(t) : SubSeq(t, i, i) = ":"}
    IN  IF at = {} THEN 0 ELSE CHOOSE i \in at : \A k \in at : i <= k

IsBrace(t) == t \in {"{", "}"}

IsMemberToken(t) == ~IsBrace(t) /\ IndexOfColon(t) > 1 /\ IndexOfColon(t) < Len(t)

IsKeyToken(t) == ~IsBrace(t) /\ IndexOfColon(t) > 1 /\ IndexOfColon(t) = Len(t)

MemberKey(t) == SubSeq(t, 1, IndexOfColon(t) - 1)

MemberValue(t) == SubSeq(t, IndexOfColon(t) + 1, Len(t))

RECURSIVE IsObjectText(_)
RECURSIVE IsMembersText(_)
\* s is the text of one JSON object
IsObjectText(s) ==
    /\ Len(s) >= 2
    /\ s[1] = "{"
    /\ s[Len(s)] = "}"
    /\ IsMembersText(SubSeq(s, 2, Len(s) - 1))

\* m is the text of a JSON object's members
IsMembersText(m) ==
    \/ Len(m) = 0
    \/ /\ Len(m) >= 1
       /\ IsMemberToken(m[1])
       /\ IsMembersText(SubSeq(m, 2, Len(m)))
    \/ /\ Len(m) >= 3
       /\ IsKeyToken(m[1])
       /\ \E j \in 3..Len(m) :
            /\ IsObjectText(SubSeq(m, 2, j))
            /\ IsMembersText(SubSeq(m, j + 1, Len(m)))

RECURSIVE MembersItems(_)
\* the dict of an object's members; of two members with one key the later one stays
MembersItems(m) ==
    IF Len(m) = 0 THEN EmptyItems
    ELSE IF IsMemberToken(m[1])
    THEN MembersItems(SubSeq(m, 2, Len(m))) @@ (MemberKey(m[1]) :> MemberValue(m[1]))
    ELSE LET j == CHOOSE j \in 3..Len(m) :
                    /\ IsObjectText(SubSeq(m, 2, j))
                    /\ IsMembersText(SubSeq(m, j + 1, Len(m)))
         IN  MembersItems(SubSeq(m, j + 1, Len(m))) @@ (MemberKey(m[1]) :> "<object>")

\* json.loads on a text that begins with "{" and ends with "}"
json_loads(s) ==
    IF IsObjectText(s)
    THEN [raised |-> FALSE, value |-> Dict(MembersItems(SubSeq(s, 2, Len(s) - 1)))]
    ELSE [raised |-> TRUE, value |-> None]

\* re.search(r"\{.*\}", text, re.DOTALL): greedy, so the match runs from the first
\* "{" of the text to its last "}"
re_search_braces(text) ==
    LET opens  == {i \in 1..Len(text) : text[i] = "{"}
        first  == CHOOSE i \in opens : \A k \in opens : i <= k
        closes == {j \in 1..Len(text) : text[j] = "}" /\ j > first}
        final  == CHOOSE j \in closes : \A k \in closes : k <= j
    IN  IF opens = {} THEN [found |-> FALSE, group |-> <<>>]
        ELSE IF closes = {} THEN [found |-> FALSE, group |-> <<>>]
        ELSE [found |-> TRUE, group |-> SubSeq(text, first, final)]

\* ADKProcurementAgent.extract_json
extract_json(text) ==
    LET match == re_search_braces(text)
        parsed == json_loads(match.group)
    IN  IF match.found /\ ~parsed.raised THEN parsed.value ELSE None

---------------------------------------------------------------------------
(* ADKProcurementAgent *)

\* a call that returned nothing (it raised)
NoResponse == [response |-> <<>>, reasoning |-> <<>>]

\* classify_reply changed: a failed call or an unrecognised reply is taken as a
\* procurement request
classify_reply_defaults_to_procurement(cls) ==
    LET intent == upper(strip(cls.content.s))
    IN  IF ~cls.ok \/ cls.content.tag /= "str"
        THEN [intent |-> "PROCUREMENT_REQUEST", raised |-> FALSE, completion_calls |-> 1]
        ELSE IF Contains(intent, "STORE_FACT")
        THEN [intent |-> "STORE_FACT", raised |-> FALSE, completion_calls |-> 1]
        ELSE [intent |-> "PROCUREMENT_REQUEST", raised |-> FALSE, completion_calls |-> 1]

\* get_intent, the try block: the classification call and the keywords looked
\* for in its reply.  cls is what litellm.completion gives: a failure, or a reply
\* whose content is None (strip() then raises inside the try) or a string
classify_reply(cls) ==
    LET intent == upper(strip(cls.content.s))
    IN  IF ~cls.ok \/ cls.content.tag /= "str"
        THEN [intent |-> "CHAT", raised |-> FALSE, completion_calls |-> 1]
        ELSE IF Contains(intent, "STORE_FACT")
        THEN [intent |-> "STORE_FACT", raised |-> FALSE, completion_calls |-> 1]
        ELSE IF Contains(intent, "PROCUREMENT")
        THEN [intent |-> "PROCUREMENT_REQUEST", raised |-> FALSE, completion_calls |-> 1]
        ELSE [intent |-> "CHAT", raised |-> FALSE, completion_calls |-> 1]

\* get_intent changed: the model is asked first, the pending order looked at after
get_intent_classifies_first(pending, user_input, cls) ==
    IF Truthy(pending)
    THEN [classify_reply(cls) EXCEPT !.intent = "APPROVAL_REPLY"]
    ELSE classify_reply(cls)

\* get_intent changed: the pending order is not looked at
get_intent_ignores_pending(pending, user_input, cls) == classify_reply(cls)

\* ADKProcurementAgent.get_intent
get_intent(pending, user_input, cls) ==
    IF Truthy(pending)
    THEN [intent |-> "APPROVAL_REPLY", raised |-> FALSE, completion_calls |-> 0]
    ELSE classify_reply(cls)

\* the tokens handle_approval takes as approval
AffirmativeTokens == {"yes", "y", "approve", "ok"}

\* the response of an approved order
Confirmed(order) ==
    [response |-> <<"**Order Confirmed**.\nPlaced order with ",
                    Format(dict_get(order, "selected_vendor")), ".">>,
     reasoning |-> <<"User manually approved.">>]

\* the response of a denied order
Cancelled == [response |-> <<"Order Cancelled.">>, reasoning |-> <<"User denied.">>]

\* handle_approval changed: a reply that is neither an approval nor a "no" leaves
\* the order pending and asks again
handle_approval_asks_again(pending, user_input) ==
    IF lower(user_input) \in AffirmativeTokens
    THEN [raised |-> FALSE, pending_order |-> None, result |-> Confirmed(pending)]
    ELSE IF lower(user_input) \in {"no", "n"}
    THEN [raised |-> FALSE, pending_order |-> None, result |-> Cancelled]
    ELSE [raised |-> FALSE, pending_order |-> pending,
          result |-> [response |-> <<"Proceed? (y/n)">>, reasoning |-> <<>>]]

\* handle_approval changed: the reply is compared as typed, without lower()
handle_approval_case_sensitive(pending, user_input) ==
    IF user_input \in AffirmativeTokens
    THEN [raised |-> FALSE, pending_order |-> None, result |-> Confirmed(pending)]
    ELSE [raised |-> FALSE, pending_order |-> None, result |-> Cancelled]

\* ADKProcurementAgent.handle_approval (order.get raises when no order is held)
handle_approval(pending, user_input) ==
    IF lower(user_input) \in AffirmativeTokens
    THEN IF pending.tag /= "dict"
         THEN [raised |-> TRUE, pending_order |-> None, result |-> NoResponse]
         ELSE [raised |-> FALSE, pending_order |-> None, result |-> Confirmed(pending)]
    ELSE [raised |-> FALSE, pending_order |-> None, result |-> Cancelled]

RECURSIVE PartsText(_)
\* for p in c.parts: if hasattr(p, 'text'): response_text += p.text or ""
PartsText(parts) ==
    IF Len(parts) = 0 THEN <<>>
    ELSE (IF parts[1].kind = "text" THEN parts[1].text ELSE <<>>)
            \o PartsText(SubSeq(parts, 2, Len(parts)))

\* the text one runner event adds to response_text
EventText(event) ==
    CASE event.kind = "content_str"   -> event.text
      [] event.kind = "content_parts" -> PartsText(event.parts)
      [] event.kind = "text"          -> event.text
      [] OTHER                        -> <<>>

RECURSIVE accumulate(_)
\* the loop over the runner's events
accumulate(events) ==
    IF Len(events) = 0 THEN <<>>
    ELSE EventText(events[1]) \o accumulate(SubSeq(events, 2, Len(events)))

\* consult_memory_tool, the tool the agent may call during a run
consult_memory_tool(coll, query, emb) ==
    LET r == search(coll, query, 3, emb)
    IN  IF r.raised THEN [raised |-> TRUE, text |-> <<>>, embedding_calls |-> r.embedding_calls]
        ELSE IF Len(r.results) = 0
        THEN [raised |-> FALSE, text |-> <<"No specific rules found in memory.">>,
              embedding_calls |-> r.embedding_calls]
        ELSE [raised |-> FALSE,
              text |-> [i \in 1..Len(r.results) |-> "- " \o r.results[i].fact],
              embedding_calls |-> r.embedding_calls]

\* act_on_response changed: whatever block is extracted is held as the pending
\* order, its status not looked at
act_on_response_holds_every_block(pending, response_text) ==
    [pending_order |-> extract_json(response_text),
     result |-> [response |-> response_text,
                 reasoning |-> <<"ADK Agent Response:\n">> \o response_text]]

\* process_message, after the runner's events were read: the decision block is
\* extracted from the response text and acted on
act_on_response(pending, response_text) ==
    LET log == <<"ADK Agent Response:\n">> \o response_text
        json_data == extract_json(response_text)
        status == dict_get(json_data, "status")
    IN  IF Truthy(json_data)
        THEN IF status = Str("PAUSE_APPROVAL_NEEDED")
             THEN [pending_order |-> json_data,
                   result |-> [response |-> <<"**Approval Required**\nReason: ",
                                              Format(dict_get(json_data, "reasoning")),
                                              "\nCost: ",
                                              Format(dict_get(json_data, "total_cost")),
                                              "\nProceed? (y/n)">>,
                               reasoning |-> log]]
             ELSE [pending_order |-> pending,
                   result |-> [response |-> <<"**Order Placed**\nVendor: ",
                                              Format(dict_get(json_data, "selected_vendor")),
                                              "\nCost: ",
                                              Format(dict_get(json_data, "total_cost")),
                                              "\nReason: ",
                                              Format(dict_get(json_data, "reasoning"))>>,
                               reasoning |-> log]]
        ELSE [pending_order |-> pending,
              result |-> [response |-> response_text, reasoning |-> log]]

\* the tool call of a run: consult_memory_tool when the agent calls it
tool_call(coll, run, tool_emb) ==
    IF run.consults
    THEN consult_memory_tool(coll, "rules for Mumbai site", tool_emb)
    ELSE [raised |-> FALSE, text |-> <<>>, embedding_calls |-> 0]

\* run_agent changed: the error of a run is reported, but the text read before
\* it is still acted on
run_agent_acts_on_partial_text(coll, pending, run, tool_emb) ==
    LET tool == tool_call(coll, run, tool_emb)
        error == IF run.raises THEN run.error ELSE "tool error"
        response_text == accumulate(run.events)
        acted == act_on_response(pending, response_text)
    IN  IF run.raises \/ tool.raised
        THEN [pending_order |-> acted.pending_order, run_raised |-> TRUE,
              response_text |-> response_text,
              embedding_calls |-> tool.embedding_calls,
              result |-> [response |-> <<"Error: ", error>>,
                          reasoning |-> <<error>>]]
        ELSE [pending_order |-> acted.pending_order, run_raised |-> FALSE,
              response_text |-> response_text,
              embedding_calls |-> tool.embedding_calls,
              result |-> acted.result]

\* process_message, the branch for PROCUREMENT_REQUEST and CHAT: the runner is
\* started and its events are accumulated, then the response is acted on; an
\* error of the run is caught and reported.  run is what the runner does: the
\* events it yields, whether the agent calls consult_memory_tool, and whether
\* the run ends in an error (an error of the tool ends the run in an error too)
run_agent(coll, pending, run, tool_emb) ==
    LET tool == tool_call(coll, run, tool_emb)
        error == IF run.raises THEN run.error ELSE "tool error"
        response_text == accumulate(run.events)
        acted == act_on_response(pending, response_text)
    IN  IF run.raises \/ tool.raised
        THEN [pending_order |-> pending, run_raised |-> TRUE,
              response_text |-> response_text,
              embedding_calls |-> tool.embedding_calls,
              result |-> [response |-> <<"Error: ", error>>,
                          reasoning |-> <<error>>]]
        ELSE [pending_order |-> acted.pending_order, run_raised |-> FALSE,
              response_text |-> response_text,
              embedding_calls |-> tool.embedding_calls,
              result |-> acted.result]

\* ADKProcurementAgent.process_message.  env holds what the external calls of
\* the turn give: cls (the classification call), add (the calls of
\* MemoryLayer.add), run, tool_emb (the runner and the tool's embedding call)
process_message(coll, pending, user_input, env) ==
    LET i == get_intent(pending, user_input, env.cls)
        h == handle_approval(pending, user_input)
        a == add(coll, user_input, None, env.add.ext, env.add.emb, env.add.ins_ok)
        r == run_agent(coll, pending, env.run, env.tool_emb)
        out == [collection |-> coll, pending_order |-> pending, raised |-> FALSE,
                result |-> NoResponse, intent |-> i.intent, fact |-> "",
                response_text |-> <<>>, run_raised |-> FALSE, add_raised |-> FALSE,
                completion_calls |-> i.completion_calls, embedding_calls |-> 0,
                insert_calls |-> 0, add_calls |-> 0, runner_calls |-> 0]
    IN  IF i.intent = "APPROVAL_REPLY"
        THEN [out EXCEPT !.pending_order = h.pending_order, !.raised = h.raised,
                         !.result = h.result]
        ELSE IF i.intent = "STORE_FACT"
        THEN [out EXCEPT !.collection = a.collection, !.raised = a.raised,
                         !.add_raised = a.raised, !.fact = a.fact,
                         !.result = IF a.raised THEN NoResponse
                                    ELSE [response |-> <<"Learned: ", a.fact>>,
                                          reasoning |->
                                            <<"Action: INGESTION via MemoryLayer">>],
                         !.completion_calls = i.completion_calls + a.completion_calls,
                         !.embedding_calls = a.embedding_calls,
                         !.insert_calls = a.insert_calls,
                         !.add_calls = 1]
        ELSE IF i.intent = "PROCUREMENT_REQUEST" \/ i.intent = "CHAT"
        THEN [out EXCEPT !.pending_order = r.pending_order, !.result = r.result,
                         !.response_text = r.response_text,
                         !.run_raised = r.run_raised,
                         !.embedding_calls = r.embedding_calls,
                         !.runner_calls = 1]
        ELSE out

---------------------------------------------------------------------------
(* Inputs *)

\* what the user types when no order is pending
Messages == {"Limit is 50k for cement", "order cement"}

\* what the user types when an order is pending
Replies == {"yes", "y", "approve", "ok", "Y", "Approve", "OK", "no", "yes please",
            "order cement", "Limit is 50k for cement", ""}

\* the metadata a caller of add passes
Metadatas == {None, Dict(EmptyItems), Dict([site |-> "Mumbai"])}

\* what process_message passes: add's default
NoMetadata == {None}

\* the queries of search
Queries == {"rules for Mumbai site", "banned vendors"}

\* the limits of search: 3 is the default of the parameter
SearchLimits == {-1, 0, 1, 2, 3}

\* the text the extraction model gives for an input, when it gives one
ExtractionReply(user_input) ==
    IF user_input = "Limit is 50k for cement"
    THEN " Cement purchase limit is 50,000 "
    ELSE "The user wants to order cement."

\* what the extraction call can give for an input
ExtractionsOf(user_input) ==
    { [ok |-> FALSE, content |-> None],
      [ok |-> TRUE,  content |-> None],
      [ok |-> TRUE,  content |-> Str(ExtractionReply(user_input))] }

\* the vector the embedding model gives for a text, when it gives one
EmbeddingOf(text) ==
    CASE text = "Cement purchase limit is 50,000" -> 0
      [] text = "The user wants to order cement." -> 2
      [] text = "rules for Mumbai site"           -> 0
      [] OTHER                                    -> 3

\* what the embedding call can give for a text
EmbeddingsOf(text) ==
    {[ok |-> FALSE, vector |-> 0], [ok |-> TRUE, vector |-> EmbeddingOf(text)]}

\* what the classification call can give
ClassifierOutcomes ==
    { [ok |-> FALSE, content |-> None],
      [ok |-> TRUE,  content |-> None],
      [ok |-> TRUE,  content |-> Str(" store_fact ")],
      [ok |-> TRUE,  content |-> Str("Category: procurement_request")],
      [ok |-> TRUE,  content |-> Str("PROCUREMENT_REQUEST, not STORE_FACT")],
      [ok |-> TRUE,  content |-> Str("CHAT")],
      [ok |-> TRUE,  content |-> Str("Hello there")] }

\* runner events: TextEvent has content with one text part; CallEvent is a tool
\* call (content whose part has text None) and its answer (a part without text);
\* StrEvent has a string as content; PlainEvent has no content but a text
TextEvent(text) ==
    [kind |-> "content_parts", parts |-> <<[kind |-> "text", text |-> text]>>]

CallEvent ==
    [kind |-> "content_parts",
     parts |-> <<[kind |-> "text", text |-> <<>>], [kind |-> "no_text"]>>]

StrEvent(text) == [kind |-> "content_str", text |-> text]

PlainEvent(text) == [kind |-> "text", text |-> text]

Run(events, consults, raises) ==
    [events |-> events, consults |-> consults, raises |-> raises,
     error |-> IF raises THEN "provider unavailable" ELSE ""]

PauseBlock ==
    <<"{", "selected_vendor:Vendor A", "price_per_unit:300", "total_cost:60000",
      "status:PAUSE_APPROVAL_NEEDED", "reasoning:over the limit", "}">>

PlacedBlock ==
    <<"{", "selected_vendor:Vendor B", "price_per_unit:200", "total_cost:40000",
      "status:ORDER_PLACED", "reasoning:within the limit", "}">>

\* what the runner can do in a turn
AgentRuns ==
    { \* the run fails at once; it fails after the decision block was yielded
      Run(<<>>, FALSE, TRUE),
      Run(<<TextEvent(PauseBlock)>>, FALSE, TRUE),
      \* prose, a fenced decision block
      Run(<<TextEvent(<<"The total exceeds the limit.", "<fence>json">> \o PauseBlock
                        \o <<"<fence>">>)>>, FALSE, FALSE),
      Run(<<StrEvent(<<"Cheapest vendor chosen.">> \o PlacedBlock)>>, FALSE, FALSE),
      \* the agent consults the memory, then decides; the block names no vendor
      Run(<<CallEvent, TextEvent(<<"{", "status:PAUSE_APPROVAL_NEEDED",
                                   "total_cost:90000", "}">>)>>, TRUE, FALSE),
      \* plain conversation
      Run(<<[kind |-> "content_none"], PlainEvent(<<"Hello! How can I help?">>)>>,
          FALSE, FALSE),
      \* braces in the prose before the decision block
      Run(<<TextEvent(<<"Compared", "{", "Vendor A, Vendor B", "}", "on price.">>
                        \o PauseBlock)>>, FALSE, FALSE),
      \* two events, each with a block
      Run(<<TextEvent(PlacedBlock), TextEvent(PauseBlock)>>, FALSE, FALSE),
      Run(<<TextEvent(PauseBlock),
            TextEvent(<<"Revised: a cheaper vendor fits the limit.">> \o PlacedBlock)>>,
          FALSE, FALSE),
      \* a block without status; one with two, the later one unknown; an empty one
      Run(<<TextEvent(<<"{", "selected_vendor:Vendor B", "total_cost:40000", "}">>)>>,
          FALSE, FALSE),
      Run(<<TextEvent(<<"{", "status:PAUSE_APPROVAL_NEEDED", "status:REJECTED",
                        "}">>)>>, FALSE, FALSE),
      Run(<<TextEvent(<<"No vendors found.", "{", "}">>)>>, FALSE, FALSE),
      \* a block with an object inside; a block that is cut off
      Run(<<TextEvent(<<"{", "quote:", "{", "price_per_unit:200", "}",
                        "status:ORDER_PLACED", "selected_vendor:Vendor B",
                        "}">>)>>, FALSE, FALSE),
      Run(<<TextEvent(<<"{", "status:PAUSE_APPROVAL_NEEDED">>)>>, FALSE, FALSE) }

NoRun == Run(<<>>, FALSE, FALSE)

NoCall == [ok |-> FALSE, content |-> None]

NoEmbedding == [ok |-> FALSE, vector |-> 0]

NoAdd == [ext |-> NoCall, emb |-> NoEmbedding, ins_ok |-> FALSE]

\* what the external calls of add can give for an input: the extraction, the
\* embedding of the fact, the insert (a call that is not reached gives nothing)
AddEnvs(user_input) ==
    {e \in [ext : ExtractionsOf(user_input),
            emb : EmbeddingsOf(strip(ExtractionReply(user_input))),
            ins_ok : BOOLEAN] :
        /\ (~e.ext.ok \/ e.ext.content.tag /= "str") => e.emb = NoEmbedding
        /\ ~e.emb.ok => ~e.ins_ok}

\* the external outcomes of a turn that begins with an order pending: no external
\* call is made
ReplyEnvs == {[cls |-> NoCall, add |-> NoAdd, run |-> NoRun, tool_emb |-> NoEmbedding]}

\* the external outcomes of a turn that begins with no order pending: the
\* classification, then either the calls of add or the run of the agent
IdleEnvs(user_input) ==
    LET store == {c \in ClassifierOutcomes :
                    get_intent(None, user_input, c).intent = "STORE_FACT"}
    IN  {[cls |-> c, add |-> a, run |-> NoRun, tool_emb |-> NoEmbedding] :
            c \in store, a \in AddEnvs(user_input)}
        \cup
        {[cls |-> c, add |-> NoAdd, run |-> r, tool_emb |-> NoEmbedding] :
            c \in ClassifierOutcomes \ store, r \in {x \in AgentRuns : ~x.consults}}
        \cup
        {[cls |-> c, add |-> NoAdd, run |-> r, tool_emb |-> t] :
            c \in ClassifierOutcomes \ store, r \in {x \in AgentRuns : x.consults},
            t \in EmbeddingsOf("rules for Mumbai site")}

---------------------------------------------------------------------------
(* The state machine *)

\* the record of a call, before its fields are filled in
Blank ==
    [op |-> "none", user_input |-> "", metadata |-> None, limit |-> 0,
     cls |-> NoCall, pre_collection |-> <<>>, pre_pending |-> None,
     raised |-> FALSE, intent |-> "", result |-> NoResponse, fact |-> "",
     results |-> <<>>, response_text |-> <<>>, run_raised |-> FALSE,
     add_raised |-> FALSE, completion_calls |-> 0, embedding_calls |-> 0, insert_calls |-> 0,
     add_calls |-> 0, runner_calls |-> 0]

\* ADKProcurementAgent.__init__: no pending order; the collection is empty
Init ==
    /\ collection = <<>>
    /\ pending_order = None
    /\ last = Blank

\* a call of agent.process_message(user_input)
ProcessMessage ==
    \E user_input \in (IF Truthy(pending_order) THEN Replies ELSE Messages) :
      \E env \in (IF Truthy(pending_order) THEN ReplyEnvs ELSE IdleEnvs(user_input)) :
        \E r \in {process_message(collection, pending_order, user_input, env)} :
            /\ Len(r.collection) <= MaxRecords
            /\ collection' = r.collection
            /\ pending_order' = r.pending_order
            /\ last' = [Blank EXCEPT
                          !.op = "process_message", !.user_input = user_input,
                          !.cls = IF Truthy(pending_order) THEN NoCall ELSE env.cls,
                          !.pre_collection = collection,
                          !.pre_pending = pending_order,
                          !.raised = r.raised, !.intent = r.intent,
                          !.result = r.result, !.fact = r.fact,
                          !.response_text = r.response_text,
                          !.run_raised = r.run_raised,
                          !.add_raised = r.add_raised,
                          !.completion_calls = r.completion_calls,
                          !.embedding_calls = r.embedding_calls,
                          !.insert_calls = r.insert_calls,
                          !.add_calls = r.add_calls,
                          !.runner_calls = r.runner_calls]

\* a call of agent.get_intent(user_input)
GetIntent ==
    \E user_input \in (IF Truthy(pending_order) THEN Replies ELSE Messages) :
      \E cls \in (IF Truthy(pending_order) THEN {NoCall} ELSE ClassifierOutcomes) :
        \E r \in {get_intent(pending_order, user_input, cls)} :
            /\ last' = [Blank EXCEPT
                          !.op = "get_intent", !.user_input = user_input,
                          !.cls = cls,
                          !.pre_collection = collection,
                          !.pre_pending = pending_order,
                          !.raised = r.raised, !.intent = r.intent,
                          !.completion_calls = r.completion_calls]
            /\ UNCHANGED <<collection, pending_order>>

\* a call of agent.memory.add(user_input, metadata), metadata among metadatas
AddCall(metadatas) ==
    \E user_input \in Messages, metadata \in metadatas :
      \E env \in AddEnvs(user_input) :
        \E r \in {add(collection, user_input, metadata, env.ext, env.emb, env.ins_ok)} :
            /\ Len(r.collection) <= MaxRecords
            /\ collection' = r.collection
            /\ last' = [Blank EXCEPT
                          !.op = "add", !.user_input = user_input,
                          !.metadata = metadata,
                          !.pre_collection = collection,
                          !.pre_pending = pending_order,
                          !.raised = r.raised, !.fact = r.fact,
                          !.completion_calls = r.completion_calls,
                          !.embedding_calls = r.embedding_calls,
                          !.insert_calls = r.insert_calls,
                          !.add_calls = 1]
            /\ UNCHANGED pending_order

\* add as the application calls it, without metadata
Add == AddCall(NoMetadata)

\* add with any metadata
AddWithMetadata == AddCall(Metadatas)

\* a call of agent.memory.search(query, limit)
Search ==
    \E query \in Queries, limit \in SearchLimits :
      \E emb \in EmbeddingsOf(query) :
        \E r \in {search(collection, query, limit, emb)} :
            /\ last' = [Blank EXCEPT
                          !.op = "search", !.user_input = query, !.limit = limit,
                          !.pre_collection = collection,
                          !.pre_pending = pending_order,
                          !.raised = r.raised, !.results = r.results,
                          !.embedding_calls = r.embedding_calls]
            /\ UNCHANGED <<collection, pending_order>>

\* a call of agent.memory.get_all()
GetAll ==
    /\ last' = [Blank EXCEPT
                  !.op = "get_all",
                  !.pre_collection = collection,
                  !.pre_pending = pending_order,
                  !.results = get_all(collection)]
    /\ UNCHANGED <<collection, pending_order>>

Next == ProcessMessage \/ GetIntent \/ Add \/ Search \/ GetAll

\* the agent and its memory
Spec == Init /\ [][Next]_vars

NextMemory == AddWithMetadata \/ Search \/ GetAll

\* the memory layer alone, called with any metadata
SpecMemory == Init /\ [][NextMemory]_vars

\* a call of agent.memory.add(user_input), while fewer than MaxStored records
\* are held
AddFact ==
    \E user_input \in Messages :
      \E env \in AddEnvs(user_input) :
        \E r \in {add(collection, user_input, None, env.ext, env.emb, env.ins_ok)} :
            /\ Len(r.collection) <= MaxStored
            /\ collection' = r.collection
            /\ last' = [Blank EXCEPT
                          !.op = "add", !.user_input = user_input,
                          !.pre_collection = collection,
                          !.pre_pending = pending_order,
                          !.raised = r.raised, !.fact = r.fact,
                          !.completion_calls = r.completion_calls,
                          !.embedding_calls = r.embedding_calls,
                          !.insert_calls = r.insert_calls,
                          !.add_calls = 1]
            /\ UNCHANGED pending_order

NextStored == AddFact \/ Search \/ GetAll

\* the memory layer alone, filled with more records than a search returns
SpecStored == Init /\ [][NextStored]_vars

---------------------------------------------------------------------------
(* Properties *)

\* the call that was last made
Called(op) == last.op = op

\* the last call was a turn that began with an order pending
RepliedToPending == Called("process_message") /\ last.pre_pending /= None

\* the last call was a turn that went to the agent
AgentTurn ==
    /\ Called("process_message")
    /\ last.intent \in {"PROCUREMENT_REQUEST", "CHAT"}

\* the decision block of a text as the specification defines it: the last
\* well-formed object of the text (the one that ends last), None without one
DecisionBlock(text) ==
    LET objects == {p \in (1..Len(text)) \X (1..Len(text)) :
                      p[1] < p[2] /\ IsObjectText(SubSeq(text, p[1], p[2]))}
        final == CHOOSE p \in objects :
                    \A q \in objects :
                        q[2] < p[2] \/ (q[2] = p[2] /\ p[1] <= q[1])
    IN  IF objects = {} THEN None
        ELSE Dict(MembersItems(SubSeq(text, final[1] + 1, final[2] - 1)))

\* the response that asks for approval of a decision block
ApprovalRequest(block) ==
    <<"**Approval Required**\nReason: ", Format(dict_get(block, "reasoning")),
      "\nCost: ", Format(dict_get(block, "total_cost")), "\nProceed? (y/n)">>

\* C1: a turn that begins with no pending order, is classified
\* PROCUREMENT_REQUEST or CHAT, and whose agent response holds a decision block
\* with status PAUSE_APPROVAL_NEEDED ends with that block as the pending order
\* and returns the approval request.
C1_PauseBlockBecomesPending ==
    ( /\ AgentTurn
      /\ last.pre_pending = None
      /\ ~last.run_raised
      /\ DecisionBlock(last.response_text) /= None
      /\ dict_get(DecisionBlock(last.response_text), "status")
            = Str("PAUSE_APPROVAL_NEEDED") )
    => ( /\ pending_order = DecisionBlock(last.response_text)
         /\ ~last.raised
         /\ last.result.response = ApprovalRequest(DecisionBlock(last.response_text)) )

\* C2: a turn that begins with an order pending ends with no order pending,
\* whatever the user typed.
C2_PendingResolvedByNextReply == RepliedToPending => pending_order = None

\* an order was pending and the user typed something that is no answer at all
C2_Witness ==
    /\ RepliedToPending
    /\ last.user_input = "Limit is 50k for cement"
    /\ pending_order = None

\* a reply is one of yes / y / approve / ok, letter case aside
IsAffirmative(reply) ==
    \E token \in {"yes", "y", "approve", "ok"} : upper(reply) = upper(token)

\* C3: the reply to a pending order gives the confirmation that names the order's
\* vendor exactly when it is an affirmative token, letter case aside; any other
\* reply gives the cancellation.
C3_ApprovalIffAffirmative ==
    RepliedToPending =>
        /\ ~last.raised
        /\ IsAffirmative(last.user_input) =>
              last.result.response =
                  <<"**Order Confirmed**.\nPlaced order with ",
                    Format(dict_get(last.pre_pending, "selected_vendor")), ".">>
        /\ ~IsAffirmative(last.user_input) =>
              last.result.response = <<"Order Cancelled.">>

\* "Approve", typed with a capital, confirmed the order placed with Vendor A
C3_Witness ==
    /\ RepliedToPending
    /\ last.user_input = "Approve"
    /\ last.result.response =
          <<"**Order Confirmed**.\nPlaced order with ", "Vendor A", ".">>

\* C4: with an order pending, get_intent gives APPROVAL_REPLY for every input and
\* makes no classification call.
C4_PendingTakesPriority ==
    ((Called("get_intent") \/ Called("process_message")) /\ last.pre_pending /= None)
    => (last.intent = "APPROVAL_REPLY" /\ last.completion_calls = 0)

\* get_intent was asked about "order cement" while an order was pending
C4_Witness ==
    /\ Called("get_intent")
    /\ last.pre_pending /= None
    /\ last.user_input = "order cement"
    /\ last.intent = "APPROVAL_REPLY"

\* C5: a turn that begins with an order pending leaves the memory as it was,
\* calls neither MemoryLayer.add nor the runner, and ends with no order pending.
C5_ReplyOnlyClearsPending ==
    RepliedToPending =>
        /\ collection = last.pre_collection
        /\ last.add_calls = 0
        /\ last.insert_calls = 0
        /\ last.runner_calls = 0
        /\ last.embedding_calls = 0
        /\ pending_order = None

\* "order cement" was typed while an order was pending and the memory held a fact
C5_Witness ==
    /\ RepliedToPending
    /\ last.user_input = "order cement"
    /\ Len(collection) > 0
    /\ last.runner_calls = 0

\* C6: add stores exactly one new record and returns the extracted fact, or it
\* raises and the collection (so what get_all returns) is what it was.
C6_AddAllOrNothing ==
    Called("add") =>
        \/ /\ ~last.raised
           /\ Len(collection) = Len(last.pre_collection) + 1
           /\ SubSeq(collection, 1, Len(last.pre_collection)) = last.pre_collection
           /\ collection[Len(collection)].document = last.fact
           /\ last.fact = strip(ExtractionReply(last.user_input))
        \/ /\ last.raised
           /\ collection = last.pre_collection
           /\ get_all(collection) = get_all(last.pre_collection)

\* the embedding call of an add failed while the collection held a record
C6_Witness ==
    /\ Called("add")
    /\ last.raised
    /\ last.embedding_calls = 1
    /\ last.insert_calls = 0
    /\ Len(last.pre_collection) > 0
    /\ collection = last.pre_collection

\* the scores of a result are ascending
Ascending(results) ==
    \A i \in 1..Len(results), j \in 1..Len(results) :
        i < j => results[i].score <= results[j].score

\* C7: for every query and limit, search returns at most
\* min(limit, number of stored records) results, nearest first.
C7_SearchAtMostMinLimitCount ==
    (Called("search") /\ ~last.raised) =>
        /\ Len(last.results) <= Min(last.limit, Len(last.pre_collection))
        /\ Ascending(last.results)

\* C8: with an empty collection search returns the empty sequence and makes no
\* embedding call, for every query and limit.
C8_EmptyStoreNoProviderCall ==
    (Called("search") /\ Len(last.pre_collection) = 0) =>
        /\ ~last.raised
        /\ last.results = <<>>
        /\ last.embedding_calls = 0

\* a search with the default limit on the empty collection
C8_Witness ==
    /\ Called("search")
    /\ Len(last.pre_collection) = 0
    /\ last.limit = 3
    /\ last.results = <<>>

\* C9: when the agent run raises, process_message does not raise, returns an
\* error response, and the pending order is what it was before the turn.
C9_AgentErrorCaught ==
    (AgentTurn /\ last.run_raised) =>
        /\ ~last.raised
        /\ Len(last.result.response) > 0
        /\ Head(last.result.response) = "Error: "
        /\ pending_order = last.pre_pending
        /\ collection = last.pre_collection

\* the run failed after it had yielded a decision block that asks for approval
C9_Witness ==
    /\ AgentTurn
    /\ last.run_raised
    /\ last.response_text = PauseBlock
    /\ pending_order = None

\* the reply of the classification names a keyword, letter case aside
Names(reply, keyword) ==
    \E i \in 1..Len(reply), j \in 1..Len(reply) :
        i <= j /\ upper(SubSeq(reply, i, j)) = keyword

\* C10: with no order pending get_intent does not raise and gives STORE_FACT,
\* PROCUREMENT_REQUEST or CHAT; it gives CHAT when the classification call fails
\* and when the reply names neither STORE_FACT nor PROCUREMENT.
C10_IntentFailsOpenToChat ==
    (Called("get_intent") /\ last.pre_pending = None) =>
        /\ ~last.raised
        /\ last.intent \in {"STORE_FACT", "PROCUREMENT_REQUEST", "CHAT"}
        /\ (~last.cls.ok \/ last.cls.content.tag /= "str") => last.intent = "CHAT"
        /\ ( /\ last.cls.ok
             /\ last.cls.content.tag = "str"
             /\ ~Names(last.cls.content.s, "STORE_FACT")
             /\ ~Names(last.cls.content.s, "PROCUREMENT") ) => last.intent = "CHAT"

\* the classification call failed and get_intent gave CHAT
C10_Witness ==
    /\ Called("get_intent")
    /\ last.pre_pending = None
    /\ ~last.cls.ok
    /\ last.intent = "CHAT"

\* the classification call of the last call failed: it raised, or its reply had
\* no content
ClassificationFailed == ~last.cls.ok \/ last.cls.content.tag /= "str"

\* a response is the order-placed confirmation
IsOrderPlaced(result) ==
    /\ Len(result.response) > 0
    /\ Head(result.response) = "**Order Placed**\nVendor: "

\* C11: a turn whose classification call fails is handled as plain conversation:
\* it writes no record to memory, gives no order-placed decision, and a decision
\* block that asks for approval is held as the pending order.
C11_FailedClassificationNeverBuysOrStores ==
    (Called("process_message") /\ last.pre_pending = None /\ ClassificationFailed)
    => /\ last.intent = "CHAT"
       /\ last.add_calls = 0
       /\ last.insert_calls = 0
       /\ collection = last.pre_collection
       /\ ~IsOrderPlaced(last.result)
       /\ ( /\ ~last.run_raised
            /\ DecisionBlock(last.response_text) /= None
            /\ dict_get(DecisionBlock(last.response_text), "status")
                  = Str("PAUSE_APPROVAL_NEEDED") )
          => pending_order /= None

\* C12: the decision block the orchestrator takes from a response text is the
\* last well-formed object of the text, whatever prose, fences and earlier braces
\* surround it; a text without one is returned as it is and the pending order is
\* what it was.
C12_LastWellFormedObjectIsTaken ==
    (AgentTurn /\ ~last.run_raised) =>
        /\ extract_json(last.response_text) = DecisionBlock(last.response_text)
        /\ DecisionBlock(last.response_text) = None =>
              /\ last.result.response = last.response_text
              /\ pending_order = last.pre_pending

\* the place where a keyword first occurs in a reply, letter case aside; 0 when
\* the reply does not hold it
FirstAt(reply, keyword) ==
    LET at == {i \in 1..Len(reply) :
                 i + Len(keyword) - 1 <= Len(reply)
                 /\ upper(SubSeq(reply, i, i + Len(keyword) - 1)) = keyword}
    IN  IF at = {} THEN 0 ELSE CHOOSE i \in at : \A k \in at : i <= k

\* C13: with no order pending and a classification call that succeeds,
\* get_intent gives the label of the keyword that occurs first in the reply.
C13_FirstKeywordWins ==
    ( /\ Called("get_intent")
      /\ last.pre_pending = None
      /\ ~ClassificationFailed
      /\ FirstAt(last.cls.content.s, "STORE_FACT") > 0
      /\ FirstAt(last.cls.content.s, "PROCUREMENT") > 0 )
    => last.intent =
          IF FirstAt(last.cls.content.s, "STORE_FACT")
                < FirstAt(last.cls.content.s, "PROCUREMENT")
          THEN "STORE_FACT" ELSE "PROCUREMENT_REQUEST"

\* C14: a search whose limit is zero or negative is refused with an error,
\* whatever the collection holds, the empty collection included.
C14_NonPositiveLimitRejected ==
    (Called("search") /\ last.limit <= 0) => last.raised

\* the response that confirms the order of a decision block
OrderPlaced(block) ==
    <<"**Order Placed**\nVendor: ", Format(dict_get(block, "selected_vendor")),
      "\nCost: ", Format(dict_get(block, "total_cost")),
      "\nReason: ", Format(dict_get(block, "reasoning"))>>

\* C15: a turn that begins with no pending order and whose decision block has
\* status ORDER_PLACED ends with no pending order, returns the order-placed
\* confirmation of that block, and leaves the collection as it was.
C15_PlacedBlockStaysIdle ==
    ( /\ AgentTurn
      /\ last.pre_pending = None
      /\ ~last.run_raised
      /\ DecisionBlock(last.response_text) /= None
      /\ dict_get(DecisionBlock(last.response_text), "status") = Str("ORDER_PLACED") )
    => ( /\ pending_order = None
         /\ ~last.raised
         /\ last.result.response = OrderPlaced(DecisionBlock(last.response_text))
         /\ collection = last.pre_collection )

\* the ids of a collection's records differ from one another
DistinctIds(coll) ==
    \A i \in 1..Len(coll), j \in 1..Len(coll) : i /= j => coll[i].id /= coll[j].id

\* a step keeps every stored record as it is and in its place, adds at most one
\* record, with an id no stored record has, and adds none when the call is a
\* search, a get_all or a get_intent
AppendOnlyStep ==
    /\ Len(collection') >= Len(collection)
    /\ Len(collection') <= Len(collection) + 1
    /\ SubSeq(collection', 1, Len(collection)) = collection
    /\ DistinctIds(collection')
    /\ last'.op \in {"search", "get_all", "get_intent"} => collection' = collection
    /\ Len(collection') > Len(collection) =>
          /\ last'.op \in {"add", "process_message"}
          /\ last'.add_calls = 1

\* C16: the memory is append-only under every sequence of add, search, get_all
\* and process_message calls: no stored record is changed or removed, the count
\* never decreases, an added record has an id of its own, and search and get_all
\* change nothing.
C16_MemoryAppendOnly == [][AppendOnlyStep]_vars

\* a second record was added to the one the collection held
C16_Witness ==
    /\ Called("add")
    /\ ~last.raised
    /\ Len(last.pre_collection) = 1
    /\ Len(collection) = 2
    /\ collection[1] = last.pre_collection[1]
    /\ collection[1].id /= collection[2].id

\* the items of the metadata a caller passed to add
CallerItems(metadata) == IF metadata.tag = "dict" THEN metadata.items ELSE EmptyItems

\* C17: the metadata of the record an add stores is the caller's metadata merged
\* with original_input, the input of that add, and timestamp, the time of
\* capture: two records, captured at different times, differ in their timestamp.
C17_MetadataCarriesCaptureTime ==
    /\ (Called("add") /\ ~last.raised) =>
          LET meta == collection[Len(collection)].metadata
              given == CallerItems(last.metadata)
          IN  /\ DOMAIN meta = DOMAIN given \cup {"original_input", "timestamp"}
              /\ meta["original_input"] = last.user_input
              /\ \A k \in DOMAIN given \ {"original_input", "timestamp"} :
                    meta[k] = given[k]
    /\ \A i \in 1..Len(collection), j \in 1..Len(collection) :
          i /= j => collection[i].metadata["timestamp"]
                        /= collection[j].metadata["timestamp"]

\* C18: when a message is classified STORE_FACT and add fails, process_message
\* raises to its caller: no response (so no "Learned") is returned, the
\* collection is what it was, and so is the pending order.
C18_FailedLearnIsSurfaced ==
    (Called("process_message") /\ last.intent = "STORE_FACT" /\ last.add_raised) =>
        /\ last.raised
        /\ last.result = NoResponse
        /\ collection = last.pre_collection
        /\ pending_order = last.pre_pending

\* the insert of a STORE_FACT turn failed while the collection held a record
C18_Witness ==
    /\ Called("process_message")
    /\ last.intent = "STORE_FACT"
    /\ last.add_raised
    /\ last.insert_calls = 1
    /\ Len(last.pre_collection) > 0
    /\ collection = last.pre_collection

\* the records of a collection that are strictly nearer to a query vector than
\* its record i
Nearer(coll, query_vector, i) ==
    {j \in 1..Len(coll) :
        Distance(coll[j].embedding, query_vector)
            < Distance(coll[i].embedding, query_vector)}

\* a result of a search holds a fact
Found(results, fact) == \E k \in 1..Len(results) : results[k].fact = fact

\* C19: a search with limit 3 that returns gives every stored fact that is among
\* the 3 records nearest to the query (fewer than 3 records are nearer); so it
\* gives every stored fact when at most 3 records are stored.
C19_StoredFactIsFound ==
    (Called("search") /\ last.limit = 3 /\ ~last.raised) =>
        \A i \in 1..Len(last.pre_collection) :
            Cardinality(Nearer(last.pre_collection, EmbeddingOf(last.user_input), i)) < 3
            => Found(last.results, last.pre_collection[i].document)

\* four records are stored; the search gives the fact added last, among three
\* results, and leaves out a fact that is farther from the query
C19_Witness ==
    /\ Called("search")
    /\ last.limit = 3
    /\ ~last.raised
    /\ Len(last.pre_collection) = 4
    /\ Len(last.results) = 3
    /\ Found(last.results, last.pre_collection[4].document)
    /\ ~Found(last.results, last.pre_collection[1].document)

\* C20: a pending order that is held is a decision block with status
\* PAUSE_APPROVAL_NEEDED; a call that ends with a pending order other than the
\* one it began with is a PROCUREMENT_REQUEST or CHAT turn that began with none
\* and whose agent run did not fail, and the order is the block of its response.
C20_PendingOrderOnlyFromAgentRun ==
    /\ pending_order /= None =>
          /\ pending_order.tag = "dict"
          /\ dict_get(pending_order, "status") = Str("PAUSE_APPROVAL_NEEDED")
    /\ (pending_order /= None /\ pending_order /= last.pre_pending) =>
          /\ AgentTurn
          /\ last.pre_pending = None
          /\ ~last.run_raised
          /\ pending_order = extract_json(last.response_text)
    /\ (last.pre_pending /= None /\ Called("process_message")) => pending_order = None
    /\ (last.pre_pending /= None /\ ~Called("process_message")) =>
          pending_order = last.pre_pending

\* an order is held, set by the turn before, while the memory is searched
C20_Witness ==
    /\ Called("search")
    /\ pending_order /= None
    /\ pending_order = last.pre_pending
    /\ dict_get(pending_order, "status") = Str("PAUSE_APPROVAL_NEEDED")

\* C21: the order-placed confirmation is returned only for a decision block whose
\* status is ORDER_PLACED; a block whose status is missing, or is anything else,
\* never gives it.
C21_OrderPlacedOnlyForPlacedStatus ==
    (Called("process_message") /\ IsOrderPlaced(last.result)) =>
        /\ AgentTurn
        /\ DecisionBlock(last.response_text) /= None
        /\ dict_get(DecisionBlock(last.response_text), "status") = Str("ORDER_PLACED")

====
